---------------------------- MODULE Spec2Model ----------------------------
(***************************************************************************)
(* A model of the shenfun client programs and of the engine interfaces     *)
(* they exercise:                                                          *)
(*                                                                         *)
(*   demo/KleinGordon.py               the Runge-Kutta time loop, run by   *)
(*                                     every MPI rank (SPMD)               *)
(*   demo/laguerre_dirichlet_poisson2D.py   the per-mode solve loop        *)
(*   demo/neumann_poisson2D.py         the constrained solver call         *)
(*   binder/poisson3D.py               assembly and solve                  *)
(*   shenfun/io/__init__.py            ShenfunFile                         *)
(*                                                                         *)
(* Arithmetic.  The programs compute with floating point numbers.  The     *)
(* model computes exactly, in the prime field of FieldOrder elements: it   *)
(* has the inverses of 2, 3 and 6 that the Runge-Kutta weights need and    *)
(* the roots of unity of order 2 and 3 that a discrete Fourier transform   *)
(* of that many points needs.  Rounding is not modelled.                   *)
(*                                                                         *)
(* Arrays.  The three-dimensional arrays of the Klein-Gordon driver are    *)
(* modelled by their distributed axis alone: NPts points (modes), of which *)
(* each rank owns one contiguous slab.                                     *)
(***************************************************************************)
EXTENDS Integers, Sequences, FiniteSets, TLC

(***************************************************************************)
(* Bounds of the model.                                                    *)
(***************************************************************************)
NPts == 2
MaxRanks == 2
MaxSteps == 6
LagRows == 3
LagCols == 2
MaxAxis == 8

(***************************************************************************)
(* Exact arithmetic.                                                       *)
(***************************************************************************)
FieldOrder == 2 * 3 + 1
FldVals == 0 .. FieldOrder - 1
Fld(x) == x % FieldOrder
Neg(x) == Fld(FieldOrder - Fld(x))
Inv(x) == CHOOSE y \in FldVals : Fld(x * y) = 1

RECURSIVE Pow(_, _)
Pow(x, n) == IF n = 0 THEN 1 ELSE Fld(x * Pow(x, n - 1))

RECURSIVE SumTo(_, _)
\* fn[0] + ... + fn[n-1]
SumTo(fn, n) == IF n = 0 THEN 0 ELSE Fld(fn[n - 1] + SumTo(fn, n - 1))

Idx == 0 .. NPts - 1
Comp == {"u", "f"}
Zero == [m \in Idx |-> 0]

\* A generator of the multiplicative group, and the root of unity of order NPts.
Gen == CHOOSE g \in FldVals :
         /\ g # 0
         /\ \A n \in 1 .. FieldOrder - 2 : Pow(g, n) # 1
Omega == Pow(Gen, (FieldOrder - 1) \div NPts)

(***************************************************************************)
(* The transform pipeline of one Fourier axis: forward is the normalised   *)
(* discrete Fourier transform, backward its inverse.                       *)
(***************************************************************************)
\* the transform without its normalisation
Forward_Unnormalised(arr) ==
  [m \in Idx |->
     SumTo([j \in Idx |-> Fld(arr[j] * Pow(Omega, (NPts - ((j * m) % NPts)) % NPts))], NPts)]

Forward(arr) ==
  [m \in Idx |->
     Fld(Inv(NPts) * SumTo([j \in Idx |-> Fld(arr[j] * Pow(Omega, (NPts - ((j * m) % NPts)) % NPts))], NPts))]

Backward(arr) ==
  [j \in Idx |->
     SumTo([m \in Idx |-> Fld(arr[m] * Pow(Omega, (j * m) % NPts))], NPts)]

(***************************************************************************)
(* Fixed-point time: <<whole, frac>> stands for whole + frac / 10^8.       *)
(***************************************************************************)
Frac == 10 ^ 8
DtFrac == 500000
EndTimeWhole == 50
TAdd(x, y) == <<x[1] + y[1] + (x[2] + y[2]) \div Frac, (x[2] + y[2]) % Frac>>
TSub(x, y) == IF x[2] >= y[2] THEN <<x[1] - y[1], x[2] - y[2]>>
              ELSE <<x[1] - y[1] - 1, x[2] + Frac - y[2]>>
TLess(x, y) == x[1] < y[1] \/ (x[1] = y[1] /\ x[2] < y[2])

(***************************************************************************)
(* demo/KleinGordon.py: parameters.                                        *)
(***************************************************************************)
gamma == 1
dt == <<0, DtFrac>>
\* dt as a number of the field
DtFld == Fld(Fld(DtFrac) * Inv(Fld(Frac)))
a == <<Inv(6), Inv(3), Inv(3), Inv(6)>>
b == <<Inv(2), Inv(2), 1>>
Tol == <<0, 1>>

\* Integer wavenumber of mode m (the layout of numpy's fftfreq), and the
\* wavenumber on the domain [-2 pi, 2 pi], of length 4 pi.
Wavenumber(m) == IF m <= (NPts - 1) \div 2 THEN m ELSE m - NPts
K(m) == IF Wavenumber(m) >= 0 THEN Fld(Wavenumber(m) * Inv(2))
        ELSE Neg((0 - Wavenumber(m)) * Inv(2))
k2(m) == Fld(Neg(K(m) * K(m)) + Neg(gamma))

VARIABLES nranks, end_time, pc, t, tstep, rk, uf, up, w0, duf,
          uf_hat, uf_hat0, uf_hat1, frames,
          iters, diags, ncoll, rhs_calls, ks

kgVars == <<nranks, end_time, pc, t, tstep, rk, uf, up, w0, duf,
            uf_hat, uf_hat0, uf_hat1, frames,
            iters, diags, ncoll, rhs_calls, ks>>

\* shenfun/io/__init__.py: one call of ShenfunFile
VARIABLES io_pc, io_call, io_result, io_constructed

ioVars == <<io_pc, io_call, io_result, io_constructed>>

\* demo/laguerre_dirichlet_poisson2D.py: the solve loop of lines 64-68
VARIABLES lag_pc, lag_i, lag_u_hat, lag_f_hat, lag_scale, lag_matrices, lag_writes

lagVars == <<lag_pc, lag_i, lag_u_hat, lag_f_hat, lag_scale, lag_matrices, lag_writes>>

\* demo/neumann_poisson2D.py: the solver call of line 62
VARIABLES neu_pc, neu_f_hat, neu_u_hat, neu_constraints, neu_error

neuVars == <<neu_pc, neu_f_hat, neu_u_hat, neu_constraints, neu_error>>

\* TensorProductSpace.local_mesh on every rank of a communicator
VARIABLES mesh_shape, mesh_size, mesh_local

meshVars == <<mesh_shape, mesh_size, mesh_local>>

\* TensorProductSpace.forward and backward on one array
VARIABLES rt_pc, rt_f, rt_hat, rt_back

rtVars == <<rt_pc, rt_f, rt_hat, rt_back>>

vars == <<kgVars, ioVars, lagVars, neuVars, meshVars, rtVars>>

notKG == <<ioVars, lagVars, neuVars, meshVars, rtVars>>
notIO == <<kgVars, lagVars, neuVars, meshVars, rtVars>>
notLag == <<kgVars, ioVars, neuVars, meshVars, rtVars>>
notNeu == <<kgVars, ioVars, lagVars, meshVars, rtVars>>
notMesh == <<kgVars, ioVars, lagVars, neuVars, rtVars>>
notRt == <<kgVars, ioVars, lagVars, neuVars, meshVars>>

Ranks == 0 .. nranks - 1

(***************************************************************************)
(* The slab of the distributed axis that rank r owns: contiguous blocks,   *)
(* the first NPts % nranks of them one longer.                             *)
(***************************************************************************)
SlabSize(r, n, R) == n \div R + (IF r < n % R THEN 1 ELSE 0)
SlabStart(r, n, R) == r * (n \div R) + (IF r < n % R THEN r ELSE n % R)
SlabOf(r, n, R) == SlabStart(r, n, R) .. SlabStart(r, n, R) + SlabSize(r, n, R) - 1
Slab(r) == SlabOf(r, NPts, nranks)

\* arr with rank r's slab replaced by the values of new
LocalSet(arr, r, new) == [m \in Idx |-> IF m \in Slab(r) THEN new[m] ELSE arr[m]]
LocalSet2(arr2, r, new2) == [c \in Comp |-> LocalSet(arr2[c], r, new2[c])]

\* x + s * y, element by element
Axpy(x, s, y) == [m \in Idx |-> Fld(x[m] + s * y[m])]
Axpy2(x2, s, y2) == [c \in Comp |-> Axpy(x2[c], s, y2[c])]

(***************************************************************************)
(* The blocking collective operations of the driver, in program order, and *)
(* where a rank stands after each.                                         *)
(***************************************************************************)
Collectives == {"Tp.backward", "Tp.forward", "TT.backward", "allreduce_ekin",
                "allreduce_es", "allreduce_eg", "TV.backward", "comm.barrier"}

AfterCollective(site) ==
  CASE site = "Tp.backward"    -> "Tp.forward"
    [] site = "Tp.forward"     -> "rhs_end"
    [] site = "TT.backward"    -> "allreduce_ekin"
    [] site = "allreduce_ekin" -> "allreduce_es"
    [] site = "allreduce_es"   -> "allreduce_eg"
    [] site = "allreduce_eg"   -> "TV.backward"
    [] site = "TV.backward"    -> "rank0_print"
    [] site = "comm.barrier"   -> "while"

\* the tolerance added instead of subtracted
LoopCond_Late(tt, endt) == TLess(tt, TAdd(endt, Tol))

\* line 108: while t < end_time-1e-8
LoopCond(tt, endt) == TLess(tt, TSub(endt, Tol))

\* line 119: if tstep % 5 == 0
DiagCond(r, ts) == ts % 5 = 0

\* a reduction made inside the rank-0 block
AfterRank0Block_Reduce(r) == IF r = 0 THEN "allreduce_eg" ELSE "comm.barrier"

\* where rank r stands after the "if rank == 0" block of lines 129-134
AfterRank0Block(r) == "comm.barrier"

\* lines 99-107: the first figure (rank 0 only), the wavenumbers, gradu
Setup(r) ==
  /\ pc[r] = "setup"
  /\ frames' = IF r = 0 THEN frames + 1 ELSE frames
  /\ pc' = [pc EXCEPT ![r] = "while"]
  /\ UNCHANGED <<nranks, end_time, t, tstep, rk, uf, up, w0, duf, uf_hat,
                 uf_hat0, uf_hat1, iters, diags, ncoll, rhs_calls, ks>>
  /\ UNCHANGED notKG

\* lines 108-112: the loop test holds; t, tstep, the two copies of uf_hat
WhileEnter(r) ==
  /\ pc[r] = "while"
  /\ LoopCond(t[r], end_time)
  /\ t' = [t EXCEPT ![r] = TAdd(@, dt)]
  /\ tstep' = [tstep EXCEPT ![r] = @ + 1]
  /\ uf_hat1' = LocalSet2(uf_hat1, r, uf_hat)
  /\ uf_hat0' = LocalSet2(uf_hat0, r, uf_hat)
  /\ rk' = [rk EXCEPT ![r] = 0]
  /\ iters' = [iters EXCEPT ![r] = @ + 1]
  /\ rhs_calls' = [rhs_calls EXCEPT ![r] = 0]
  /\ pc' = [pc EXCEPT ![r] = "compute_rhs"]
  /\ UNCHANGED <<nranks, end_time, uf, up, w0, duf, uf_hat, frames, diags, ncoll, ks>>
  /\ UNCHANGED notKG

\* lines 108, 137: the loop test fails
WhileExit(r) ==
  /\ pc[r] = "while"
  /\ ~LoopCond(t[r], end_time)
  /\ pc' = [pc EXCEPT ![r] = "done"]
  /\ UNCHANGED <<nranks, end_time, t, tstep, rk, uf, up, w0, duf, uf_hat,
                 uf_hat0, uf_hat1, frames, iters, diags, ncoll, rhs_calls, ks>>
  /\ UNCHANGED notKG

\* lines 113, 77-81: compute_rhs up to its call of Tp.backward
RhsBegin(r) ==
  /\ pc[r] = "compute_rhs"
  /\ duf' = LocalSet2(duf, r, [u |-> Zero,
                               f |-> [m \in Idx |-> Fld(k2(m) * uf_hat.u[m])]])
  /\ rhs_calls' = [rhs_calls EXCEPT ![r] = @ + 1]
  /\ pc' = [pc EXCEPT ![r] = "Tp.backward"]
  /\ UNCHANGED <<nranks, end_time, t, tstep, rk, uf, up, w0, uf_hat, uf_hat0,
                 uf_hat1, frames, iters, diags, ncoll, ks>>
  /\ UNCHANGED notKG

\* the stage advanced from the current uf_hat instead of from uf_hat0
StageUpdate_FromCurrent(cur, base, stage, dufv) == Axpy2(cur, Fld(b[stage + 1] * DtFld), dufv)

\* the stage's new uf_hat (line 115) from uf_hat0 and the stage's duf
StageUpdate(cur, base, stage, dufv) == Axpy2(base, Fld(b[stage + 1] * DtFld), dufv)

\* lines 82-84 after Tp.forward has returned, then lines 114-116
RhsEnd(r) ==
  /\ pc[r] = "rhs_end"
  /\ LET res == [u |-> uf_hat.f, f |-> Axpy(duf.f, 1, w0)]
         new == LocalSet2(duf, r, res)
     IN /\ duf' = new
        /\ uf_hat' = IF rk[r] < 3
                     THEN LocalSet2(uf_hat, r, StageUpdate(uf_hat, uf_hat0, rk[r], new))
                     ELSE uf_hat
        /\ uf_hat1' = LocalSet2(uf_hat1, r, Axpy2(uf_hat1, Fld(a[rk[r] + 1] * DtFld), new))
        /\ ks' = [ks EXCEPT ![rk[r]] = LocalSet2(@, r, new)]
  /\ rk' = [rk EXCEPT ![r] = IF @ < 3 THEN @ + 1 ELSE @]
  /\ pc' = [pc EXCEPT ![r] = IF rk[r] < 3 THEN "compute_rhs" ELSE "end_step"]
  /\ UNCHANGED <<nranks, end_time, t, tstep, uf, up, w0, uf_hat0, frames,
                 iters, diags, ncoll, rhs_calls>>
  /\ UNCHANGED notKG

\* lines 117, 119
EndStep(r) ==
  /\ pc[r] = "end_step"
  /\ uf_hat' = LocalSet2(uf_hat, r, uf_hat1)
  /\ pc' = [pc EXCEPT ![r] = IF DiagCond(r, tstep[r]) THEN "TT.backward" ELSE "while"]
  /\ diags' = [diags EXCEPT ![r] = IF DiagCond(r, tstep[r]) THEN @ + 1 ELSE @]
  /\ UNCHANGED <<nranks, end_time, t, tstep, rk, uf, up, w0, duf, uf_hat0,
                 uf_hat1, frames, iters, ncoll, rhs_calls, ks>>
  /\ UNCHANGED notKG

\* lines 129-134: rank 0 redraws the figure and prints; the others skip
Rank0Print(r) ==
  /\ pc[r] = "rank0_print"
  /\ frames' = IF r = 0 THEN frames + 1 ELSE frames
  /\ pc' = [pc EXCEPT ![r] = AfterRank0Block(r)]
  /\ UNCHANGED <<nranks, end_time, t, tstep, rk, uf, up, w0, duf, uf_hat,
                 uf_hat0, uf_hat1, iters, diags, ncoll, rhs_calls, ks>>
  /\ UNCHANGED notKG

(***************************************************************************)
(* A collective completes when every rank of the communicator has entered  *)
(* the same call; its data are exchanged in one step.  The diagnostic sums *)
(* (ekin, es, eg, ep, ea) and gradu are written and printed, never read by *)
(* the integration: the model keeps their calls and not their values.      *)
(***************************************************************************)
Collective(site) ==
  /\ \A r \in Ranks : pc[r] = site
  /\ pc' = [r \in Ranks |-> AfterCollective(site)]
  /\ ncoll' = [r \in Ranks |-> ncoll[r] + 1]
  /\ up' = IF site = "Tp.backward" THEN Backward(uf_hat.u) ELSE up
  /\ w0' = IF site = "Tp.forward"
           THEN Forward([j \in Idx |-> Fld(gamma * Pow(up[j], 3))])
           ELSE w0
  /\ uf' = IF site = "TT.backward"
           THEN [c \in Comp |-> Backward(uf_hat[c])]
           ELSE uf
  /\ UNCHANGED <<nranks, end_time, t, tstep, rk, duf, uf_hat, uf_hat0,
                 uf_hat1, frames, iters, diags, rhs_calls, ks>>
  /\ UNCHANGED notKG

NextKG ==
  \/ \E r \in Ranks : Setup(r)
  \/ \E r \in Ranks : WhileEnter(r)
  \/ \E r \in Ranks : WhileExit(r)
  \/ \E r \in Ranks : RhsBegin(r)
  \/ \E r \in Ranks : RhsEnd(r)
  \/ \E r \in Ranks : EndStep(r)
  \/ \E r \in Ranks : Rank0Print(r)
  \/ \E site \in Collectives : Collective(site)

\* lines 53-70: the arrays after initialisation from the field u0 (f is zero)
InitArrays(u0) ==
  /\ uf = [u |-> u0, f |-> Zero]
  /\ up = Zero
  /\ w0 = Zero
  /\ duf = [c \in Comp |-> Zero]
  /\ uf_hat = [u |-> Forward(u0), f |-> Zero]
  /\ uf_hat0 = [c \in Comp |-> Zero]
  /\ uf_hat1 = [c \in Comp |-> Zero]
  /\ ks = [s \in 0 .. 3 |-> [c \in Comp |-> Zero]]

InitControl(R, endt) ==
  /\ nranks = R
  /\ end_time = endt
  /\ pc = [r \in 0 .. R - 1 |-> "setup"]
  /\ t = [r \in 0 .. R - 1 |-> <<0, 0>>]
  /\ tstep = [r \in 0 .. R - 1 |-> 0]
  /\ rk = [r \in 0 .. R - 1 |-> 0]
  /\ frames = 0
  /\ iters = [r \in 0 .. R - 1 |-> 0]
  /\ diags = [r \in 0 .. R - 1 |-> 0]
  /\ ncoll = [r \in 0 .. R - 1 |-> 0]
  /\ rhs_calls = [r \in 0 .. R - 1 |-> 0]

(***************************************************************************)
(* shenfun/io/__init__.py.  Strings are sequences of characters, Python    *)
(* values are records of their type and their repr, keyword arguments are  *)
(* functions from the keywords given to their values.                      *)
(***************************************************************************)
UpperCase == <<"A", "B", "C", "D", "E", "F", "G", "H", "I", "J", "K", "L", "M",
               "N", "O", "P", "Q", "R", "S", "T", "U", "V", "W", "X", "Y", "Z">>
LowerCase == <<"a", "b", "c", "d", "e", "f", "g", "h", "i", "j", "k", "l", "m",
               "n", "o", "p", "q", "r", "s", "t", "u", "v", "w", "x", "y", "z">>
LowerChar(ch) == IF \E i \in 1 .. Len(UpperCase) : UpperCase[i] = ch
                 THEN LowerCase[CHOOSE i \in 1 .. Len(UpperCase) : UpperCase[i] = ch]
                 ELSE ch
\* str.lower()
Lower(str) == [i \in 1 .. Len(str) |-> LowerChar(str[i])]

PyBool(v) == [type |-> "bool", repr |-> IF v THEN "True" ELSE "False"]
PyInt(n) == [type |-> "int", repr |-> ToString(n)]
PyNone == [type |-> "NoneType", repr |-> "None"]
\* "x is False": the object is the boolean False
IsFalse(x) == x.type = "bool" /\ x.repr = "False"

NoKw == [key \in {} |-> PyNone]
\* dict.get(key, default)
KwGet(kw, key, default) == IF key \in DOMAIN kw THEN kw[key] ELSE default
\* the value a parameter takes: the caller's, or the default of the signature
Param(args, key, default) == IF key \in DOMAIN args THEN args[key] ELSE default

\* T.mesh(kind): one array per axis, of T[i] points along its own axis and
\* of length 1 along the others.  A point is named by its mesh, axis and index.
Mesh(T, kind) ==
  [i \in 1 .. Len(T) |->
     [shape |-> [d \in 1 .. Len(T) |-> IF d = i THEN T[i] ELSE 1],
      data  |-> [j \in 1 .. T[i] |-> <<kind, i, j>>]]]

\* np.squeeze: the axes of length 1 removed, the data kept
Squeeze(arr) ==
  [shape |-> SelectSeq(arr.shape, LAMBDA n : n # 1), data |-> arr.data]

\* the comparison without lower()
IsHDF5_CaseSensitive(backend) == backend = <<"h", "d", "f", "5">>

\* line 31: which branch a backend takes
IsHDF5(backend) == Lower(backend) = <<"h", "d", "f", "5">>

\* the assert testing truth ("assert not kw.get(...)") instead of identity
AssertHolds_Truthy(kw) ==
  KwGet(kw, "forward_output", PyBool(FALSE)).repr \in {"False", "0", "None"}

\* line 33: the assert's condition
AssertHolds(kw) == IsFalse(KwGet(kw, "forward_output", PyBool(FALSE)))

\* lines 7-34
ShenfunFile(name, T, args, kw) ==
  /\ io_pc = "idle"
  /\ io_call' = [name |-> name, T |-> T, args |-> args, kw |-> kw]
  /\ LET backend == Param(args, "backend", <<"h", "d", "f", "5">>)
         mode    == Param(args, "mode", "r")
         mesh    == Param(args, "mesh", "quadrature")
         domain  == [i \in 1 .. Len(T) |-> Squeeze(Mesh(T, mesh)[i])]
     IN IF IsHDF5(backend)
        THEN /\ io_result' = [class |-> "HDF5File", fname |-> name \o <<".", "h", "5">>,
                              domain |-> domain, mode |-> mode, kw |-> kw]
             /\ io_constructed' = Append(io_constructed, "HDF5File")
             /\ io_pc' = "returned"
        ELSE IF ~AssertHolds(kw)
        THEN /\ io_result' = [class |-> "AssertionError", fname |-> <<>>,
                              domain |-> <<>>, mode |-> "", kw |-> NoKw]
             /\ io_constructed' = io_constructed
             /\ io_pc' = "raised"
        ELSE /\ io_result' = [class |-> "NCFile", fname |-> name \o <<".", "n", "c">>,
                              domain |-> domain, mode |-> mode, kw |-> kw]
             /\ io_constructed' = Append(io_constructed, "NCFile")
             /\ io_pc' = "returned"
  /\ UNCHANGED notIO

\* the calls the model makes
Names == {<<"o", "u", "t">>, <<"K", "G">>}
Spaces == {<<2, 3>>, <<1, 2>>, <<3>>}
Backends == {<<"h", "d", "f", "5">>, <<"H", "D", "F", "5">>, <<"H", "d", "f", "5">>,
             <<"n", "e", "t", "c", "d", "f", "4">>, <<"N", "e", "t", "C", "D", "F", "4">>,
             <<"h", "d", "f">>}
Opt(key, vals) == {NoKw} \cup {[kk \in {key} |-> v] : v \in vals}
Merge(fa, fb) == [kk \in DOMAIN fa \cup DOMAIN fb |-> IF kk \in DOMAIN fa THEN fa[kk] ELSE fb[kk]]
ArgSets ==
  { Merge(Merge(x, y), z) : x \in Opt("backend", Backends),
                            y \in Opt("mode", {"r", "w"}),
                            z \in Opt("mesh", {"quadrature", "uniform"}) }
KwSets == {NoKw} \cup
          {[key \in {"forward_output"} |-> v] :
             v \in {PyBool(FALSE), PyBool(TRUE), PyInt(0), PyInt(1), PyNone}}

NextIO ==
  \E name \in Names, T \in Spaces, args \in ArgSets, kw \in KwSets :
    ShenfunFile(name, T, args, kw)

IdleIO ==
  /\ io_pc = "idle"
  /\ io_call = [name |-> <<>>, T |-> <<>>, args |-> NoKw, kw |-> NoKw]
  /\ io_result = [class |-> "", fname |-> <<>>, domain |-> <<>>, mode |-> "", kw |-> NoKw]
  /\ io_constructed = <<>>

(***************************************************************************)
(* demo/laguerre_dirichlet_poisson2D.py.  u_hat and f_hat have LagRows     *)
(* rows (the Laguerre axis, whose last row is no degree of freedom of the  *)
(* Dirichlet basis) and LagCols columns (the Fourier modes).               *)
(***************************************************************************)
Rows == 0 .. LagRows - 1
Dofs == 0 .. LagRows - 2
Cols == 0 .. LagCols - 1
\* an entry no solve of a regular system produces
NaN == FieldOrder

Tridiag(lo, di, up0) ==
  [r \in Dofs |-> [c \in Dofs |-> IF c = r THEN Fld(di)
                                  ELSE IF c = r + 1 THEN Fld(up0)
                                  ELSE IF c = r - 1 THEN Fld(lo) ELSE 0]]

\* line 61: inner(grad(v), grad(u)) on the Laguerre axis, for the basis
\* l_k - l_{k+1} of Laguerre functions: the stiffness matrix of the first
\* term (matrices[0].mats[0]) and the mass matrix of the second
\* (matrices[1].mats[0]), whose scale holds the squared Fourier wavenumbers
LagStiffness == Tridiag(Inv(4), 2 * Inv(4), Inv(4))
LagMass == Tridiag(FieldOrder - 1, 2, FieldOrder - 1)

MatVec(M, x) == [r \in Dofs |-> SumTo([c \in Dofs |-> Fld(M[r][c] * x[c])], LagRows - 1)]
Regular(M) == \A rhs \in [Dofs -> {0, 1}] : \E x \in [Dofs -> FldVals] : MatVec(M, x) = rhs

\* M.solve(rhs, out): the solution of M x = rhs, stored in out and returned;
\* rhs is left as it is
MSolve(M, rhs, out) ==
  IF \E x \in [Dofs -> FldVals] : MatVec(M, x) = rhs
  THEN CHOOSE x \in [Dofs -> FldVals] : MatVec(M, x) = rhs
  ELSE [r \in Dofs |-> NaN]

\* the operator built from the loop index instead of the scale
LagOperator_ByIndex(mats, i, k) ==
  [r \in Dofs |-> [c \in Dofs |-> Fld(mats[1][r][c] + i * mats[2][r][c])]]

\* line 67: M = matrices[0].mats[0] + k*matrices[1].mats[0]
LagOperator(mats, i, k) ==
  [r \in Dofs |-> [c \in Dofs |-> Fld(mats[1][r][c] + k * mats[2][r][c])]]

\* lines 66-68: one iteration of the loop
LagIterate ==
  /\ lag_pc = "loop"
  /\ lag_i < Len(lag_scale)
  /\ LET i == lag_i
         k == lag_scale[i + 1]
         M == LagOperator(lag_matrices, i, k)
         x == MSolve(M, [r \in Dofs |-> lag_f_hat[r][i]], [r \in Dofs |-> lag_u_hat[r][i]])
     IN /\ lag_u_hat' = [r \in Rows |-> [c \in Cols |->
                           IF c = i /\ r \in Dofs THEN x[r] ELSE lag_u_hat[r][c]]]
        /\ lag_writes' = [r \in Rows |-> [c \in Cols |->
                           IF c = i /\ r \in Dofs THEN lag_writes[r][c] + 1 ELSE lag_writes[r][c]]]
  /\ lag_i' = lag_i + 1
  /\ UNCHANGED <<lag_pc, lag_f_hat, lag_scale, lag_matrices>>
  /\ UNCHANGED notLag

\* line 66: the scale is exhausted
LagExit ==
  /\ lag_pc = "loop"
  /\ lag_i = Len(lag_scale)
  /\ lag_pc' = "done"
  /\ UNCHANGED <<lag_i, lag_u_hat, lag_f_hat, lag_scale, lag_matrices, lag_writes>>
  /\ UNCHANGED notLag

NextLag == LagIterate \/ LagExit

\* the right-hand sides the model solves for: one mode excited, or all
Impulse(r0, c0, v) == [r \in Rows |-> [c \in Cols |-> IF r = r0 /\ c = c0 THEN v ELSE 0]]
Ramp(v) == [r \in Rows |-> [c \in Cols |-> Fld(v + r + 2 * c)]]
LagRhs == {Impulse(r0, c0, v) : r0 \in Rows, c0 \in Cols, v \in FldVals \ {0}}
          \cup {Ramp(v) : v \in FldVals}

\* lines 57-65: f_hat assembled, the matrices assembled, u_hat zero; the
\* operators of a positive definite form are regular
InitLag ==
  /\ lag_pc = "loop"
  /\ lag_i = 0
  /\ lag_u_hat = [r \in Rows |-> [c \in Cols |-> 0]]
  /\ lag_writes = [r \in Rows |-> [c \in Cols |-> 0]]
  /\ lag_matrices = <<LagStiffness, LagMass>>
  /\ lag_f_hat \in LagRhs
  /\ lag_scale \in [1 .. LagCols -> {k \in FldVals : Regular(LagOperator(<<LagStiffness, LagMass>>, 0, k))}]

IdleLag ==
  /\ lag_pc = "idle"
  /\ lag_i = 0
  /\ lag_u_hat = <<>>
  /\ lag_f_hat = <<>>
  /\ lag_scale = <<>>
  /\ lag_matrices = <<>>
  /\ lag_writes = <<>>

(***************************************************************************)
(* demo/neumann_poisson2D.py.  The assembled operator of -div(grad(u)) on  *)
(* a Neumann axis (modes m) and a Fourier axis (wavenumbers l) is, for     *)
(* each l, the one-dimensional operator M0 + l^2 * M1; in a basis that     *)
(* diagonalises it, its entry for mode m is m^2 + l^2.  It is singular     *)
(* for l = 0 only, with the constant mode 0 as its null space.             *)
(***************************************************************************)
NeuEntry(m, l) == Fld(m * m + l * l)
NeuSingular == {ml \in Idx \X Idx : NeuEntry(ml[1], ml[2]) = 0}
Pinned(constraints) == {<<constraints[n][1], 0>> : n \in 1 .. Len(constraints)}
PinValue(constraints, m) ==
  constraints[CHOOSE n \in 1 .. Len(constraints) : constraints[n][1] = m][2]

\* a solver that leaves the null space at zero instead of failing
SolverFails_Never(constraints) == FALSE

\* the solver fails when a singular mode is left without a constraint
SolverFails(constraints) == NeuSingular \ Pinned(constraints) # {}

\* the solution: the constrained modes at their values, the others solved
SolverResult(rhs, out, constraints) ==
  [m \in Idx |-> [l \in Idx |->
     IF <<m, l>> \in Pinned(constraints) THEN PinValue(constraints, m)
     ELSE IF NeuEntry(m, l) = 0 THEN out[m][l]
     ELSE Fld(rhs[m][l] * Inv(NeuEntry(m, l)))]]

\* line 62: u_hat = sol(f_hat, u_hat, constraints=constraint), and the same
\* call without constraints
SolverCall(constraints) ==
  /\ neu_pc = "assembled"
  /\ neu_constraints' = constraints
  /\ IF SolverFails(constraints)
     THEN /\ neu_error' = "SingularSystemError"
          /\ neu_u_hat' = neu_u_hat
          /\ neu_pc' = "raised"
     ELSE /\ neu_error' = "none"
          /\ neu_u_hat' = SolverResult(neu_f_hat, neu_u_hat, constraints)
          /\ neu_pc' = "solved"
  /\ UNCHANGED neu_f_hat
  /\ UNCHANGED notNeu

\* line 58: the constraint of the demo pins mode 0 to the mean of the solution
NextNeu ==
  \/ SolverCall(<<>>)
  \/ \E v \in FldVals : SolverCall(<< <<0, v>> >>)

Impulse2(m0, l0, v) == [m \in Idx |-> [l \in Idx |-> IF m = m0 /\ l = l0 THEN v ELSE 0]]
Pair2(p, q, v, w) == [m \in Idx |-> [l \in Idx |-> Fld(Impulse2(p[1], p[2], v)[m][l] + Impulse2(q[1], q[2], w)[m][l])]]

\* lines 47-61: f_hat assembled, u_hat zero with its boundary dofs set
InitNeu ==
  /\ neu_pc = "assembled"
  /\ neu_f_hat \in {Impulse2(m0, l0, v) : m0 \in Idx, l0 \in Idx, v \in FldVals}
  /\ neu_u_hat = [m \in Idx |-> [l \in Idx |-> 0]]
  /\ neu_constraints = <<>>
  /\ neu_error = "none"

IdleNeu ==
  /\ neu_pc = "idle"
  /\ neu_f_hat = <<>>
  /\ neu_u_hat = <<>>
  /\ neu_constraints = <<>>
  /\ neu_error = "none"

(***************************************************************************)
(* TensorProductSpace.local_mesh of a space of two axes, of which axis 0   *)
(* is distributed in slabs over the ranks.  A mesh point of an axis is     *)
(* named by its global index.                                              *)
(***************************************************************************)
\* slabs that start one point early
LocalSlab_Overlap(r, n, R) ==
  (IF r = 0 THEN 0 ELSE SlabStart(r, n, R) - 1) .. SlabStart(r, n, R) + SlabSize(r, n, R) - 1

\* the global indices of axis 0 that rank r owns
LocalSlab(r, n, R) == SlabOf(r, n, R)

\* local_mesh(broadcast) called by rank r
LocalMesh(r, broadcast) ==
  /\ r \in 0 .. mesh_size - 1
  /\ r \notin DOMAIN mesh_local
  /\ LET own == LocalSlab(r, mesh_shape[1], mesh_size)
         n0 == Cardinality(own)
     IN mesh_local' =
          [q \in DOMAIN mesh_local \cup {r} |->
             IF q # r THEN mesh_local[q]
             ELSE [x0 |-> own, x1 |-> 0 .. mesh_shape[2] - 1,
                   shape0 |-> IF broadcast THEN <<n0, mesh_shape[2]>> ELSE <<n0, 1>>,
                   shape1 |-> IF broadcast THEN <<n0, mesh_shape[2]>> ELSE <<1, mesh_shape[2]>>]]
  /\ UNCHANGED <<mesh_shape, mesh_size>>
  /\ UNCHANGED notMesh

NextMesh == \E r \in 0 .. MaxRanks - 1, broadcast \in BOOLEAN : LocalMesh(r, broadcast)

NoMesh == [q \in {} |-> 0]

\* a rank count that divides the global shape along the distributed axis
InitMesh ==
  /\ mesh_size \in 1 .. MaxRanks
  /\ mesh_shape \in {sh \in (1 .. MaxAxis) \X (1 .. 3) : sh[1] % mesh_size = 0}
  /\ mesh_local = NoMesh

IdleMesh ==
  /\ mesh_size = 0
  /\ mesh_shape = <<0, 0>>
  /\ mesh_local = NoMesh

(***************************************************************************)
(* TensorProductSpace.forward and backward on a space of two Fourier axes: *)
(* forward transforms the last axis first, backward the first axis first.  *)
(***************************************************************************)
Transpose(arr) == [r \in Idx |-> [c \in Idx |-> arr[c][r]]]
ForwardAlong1(arr) == [r \in Idx |-> Forward(arr[r])]
ForwardAlong0(arr) == Transpose(ForwardAlong1(Transpose(arr)))
BackwardAlong1(arr) == [r \in Idx |-> Backward(arr[r])]
BackwardAlong0(arr) == Transpose(BackwardAlong1(Transpose(arr)))

SpaceForward(arr) == ForwardAlong0(ForwardAlong1(arr))
SpaceBackward(arr) == BackwardAlong1(BackwardAlong0(arr))

RtForward ==
  /\ rt_pc = "physical"
  /\ rt_hat' = SpaceForward(rt_f)
  /\ rt_pc' = "spectral"
  /\ UNCHANGED <<rt_f, rt_back>>
  /\ UNCHANGED notRt

RtBackward ==
  /\ rt_pc = "spectral"
  /\ rt_back' = SpaceBackward(rt_hat)
  /\ rt_pc' = "back"
  /\ UNCHANGED <<rt_f, rt_hat>>
  /\ UNCHANGED notRt

NextRt == RtForward \/ RtBackward

InitRt ==
  /\ rt_pc = "physical"
  /\ rt_f \in {Pair2(p, q, v, w) : p \in Idx \X Idx, q \in Idx \X Idx, v \in FldVals, w \in FldVals}
  /\ rt_hat = [r \in Idx |-> [c \in Idx |-> 0]]
  /\ rt_back = [r \in Idx |-> [c \in Idx |-> 0]]

IdleRt ==
  /\ rt_pc = "idle"
  /\ rt_f = <<>>
  /\ rt_hat = <<>>
  /\ rt_back = <<>>

\* the driver not started: no rank
IdleKG == InitArrays(Zero) /\ InitControl(0, <<0, 0>>)

\* the time after n steps of dt
StepsPerUnit == Frac \div DtFrac
Horizon(n) == <<n \div StepsPerUnit, (n % StepsPerUnit) * DtFrac>>

\* line 28: the initial field 0.1*exp(-r^2) on the coarse grid of the model:
\* its peak at the centre of the domain, nothing at the far points
InitialField == [j \in Idx |-> IF j = NPts \div 2 THEN 1 ELSE 0]

\* One rank, every initial field, a short horizon: the data of the RK step.
InitRK ==
  /\ IdleIO
  /\ IdleLag
  /\ IdleNeu
  /\ IdleMesh
  /\ IdleRt
  /\ \E u0 \in [Idx -> FldVals] : InitArrays(u0)
  /\ \E n \in 1 .. MaxSteps : InitControl(1, Horizon(n))

SpecRK == InitRK /\ [][NextKG]_vars

\* One rank and the horizon of the script (line 96): the whole time loop.
InitLoop ==
  /\ IdleIO
  /\ IdleLag
  /\ IdleNeu
  /\ IdleMesh
  /\ IdleRt
  /\ InitArrays(InitialField)
  /\ InitControl(1, <<EndTimeWhole, 0>>)

SpecLoop == InitLoop /\ [][NextKG]_vars

\* Several ranks, a short horizon: the interleavings of the SPMD program.
InitMPI ==
  /\ IdleIO
  /\ IdleLag
  /\ IdleNeu
  /\ IdleMesh
  /\ IdleRt
  /\ InitArrays(InitialField)
  /\ \E R \in 1 .. MaxRanks : \E n \in 1 .. MaxSteps : InitControl(R, Horizon(n))

SpecMPI == InitMPI /\ [][NextKG]_vars

InitIO == IdleKG /\ IdleIO /\ IdleLag /\ IdleNeu /\ IdleMesh /\ IdleRt

SpecIO == InitIO /\ [][NextIO]_vars

InitLagLoop == IdleKG /\ IdleIO /\ InitLag /\ IdleNeu /\ IdleMesh /\ IdleRt

SpecLag == InitLagLoop /\ [][NextLag]_vars

InitNeumann == IdleKG /\ IdleIO /\ IdleLag /\ InitNeu /\ IdleMesh /\ IdleRt

SpecNeumann == InitNeumann /\ [][NextNeu]_vars

InitLocalMesh == IdleKG /\ IdleIO /\ IdleLag /\ IdleNeu /\ InitMesh /\ IdleRt

SpecMesh == InitLocalMesh /\ [][NextMesh]_vars

InitTransform == IdleKG /\ IdleIO /\ IdleLag /\ IdleNeu /\ IdleMesh /\ InitRt

SpecTransform == InitTransform /\ [][NextRt]_vars

(***************************************************************************)
(* C9.  The RK4 step.  On the slab of every rank: at the start of a step   *)
(* uf_hat0 and uf_hat1 hold uf_hat; compute_rhs is called four times in a  *)
(* step; the stages leave uf_hat0 alone; after stage rk < 3 uf_hat is      *)
(* uf_hat0 + b[rk]*dt*duf; at the end of the step uf_hat is                *)
(* uf_hat0 + dt*(a[0]*k0 + a[1]*k1 + a[2]*k2 + a[3]*k3), where k_rk is     *)
(* what compute_rhs returned at stage rk; and the weights a sum to 1.      *)
(***************************************************************************)
InStep(r) == pc[r] \in {"compute_rhs", "Tp.backward", "Tp.forward", "rhs_end", "end_step"}
AfterStep(r) == pc[r] \notin {"setup"} /\ ~InStep(r) /\ tstep[r] >= 1

WeightedSum(c, m) ==
  Fld(a[1] * ks[0][c][m] + a[2] * ks[1][c][m] + a[3] * ks[2][c][m] + a[4] * ks[3][c][m])

C9_State ==
  \A r \in Ranks : \A c \in Comp : \A m \in Slab(r) :
    /\ (pc[r] = "compute_rhs" /\ rk[r] = 0 /\ rhs_calls[r] = 0)
          => (uf_hat0[c][m] = uf_hat[c][m] /\ uf_hat1[c][m] = uf_hat[c][m])
    /\ rhs_calls[r] <= 4
    /\ (pc[r] = "end_step" \/ AfterStep(r)) => rhs_calls[r] = 4
    /\ (InStep(r) /\ pc[r] # "end_step") => rhs_calls[r] = rk[r] + (IF pc[r] = "compute_rhs" THEN 0 ELSE 1)
    /\ (pc[r] = "compute_rhs" /\ rk[r] >= 1)
          => /\ duf[c][m] = ks[rk[r] - 1][c][m]
             /\ uf_hat[c][m] = Fld(uf_hat0[c][m] + b[rk[r]] * DtFld * duf[c][m])
    /\ AfterStep(r) => uf_hat[c][m] = Fld(uf_hat0[c][m] + DtFld * WeightedSum(c, m))
    /\ Fld(a[1] + a[2] + a[3] + a[4]) = 1

C9_Frame ==
  \A r \in Ranks : \A c \in Comp : \A m \in Slab(r) :
    (InStep(r) /\ InStep(r)') => uf_hat0'[c][m] = uf_hat0[c][m]

C9_RK4Step == []C9_State /\ [][C9_Frame]_vars

\* a step has been taken that moved the solution
C9_Witness ==
  /\ pc[0] = "while"
  /\ tstep[0] >= 2
  /\ rhs_calls[0] = 4
  /\ uf_hat # uf_hat0
  /\ ks[0] # ks[3]

(***************************************************************************)
(* C10.  Termination and cadence of the time loop, with the script's dt    *)
(* and end_time: the loop ends after exactly 10000 iterations and not      *)
(* before; t and tstep advance once per iteration; the diagnostics block   *)
(* (one TT.backward, three allreduce, one TV.backward, one barrier) runs   *)
(* in exactly the iterations whose tstep is a multiple of 5.               *)
(***************************************************************************)
DiagSites == {"TT.backward", "allreduce_ekin", "allreduce_es", "allreduce_eg",
              "TV.backward", "rank0_print", "comm.barrier"}

C10_LoopCadence ==
  \A r \in Ranks :
    /\ tstep[r] = iters[r]
    /\ t[r] = Horizon(iters[r])
    /\ iters[r] <= 10000
    /\ pc[r] = "done" <=> (iters[r] = 10000 /\ pc[r] \notin {"while"} /\ ~InStep(r) /\ pc[r] \notin DiagSites)
    /\ pc[r] # "done" => ENABLED NextKG
    /\ pc[r] \in DiagSites => (tstep[r] % 5 = 0 /\ diags[r] = tstep[r] \div 5)
    /\ pc[r] \in {"while", "done"}
          => /\ diags[r] = tstep[r] \div 5
             /\ ncoll[r] = 8 * iters[r] + 6 * diags[r]
             /\ frames = 1 + diags[r]

C10_Witness ==
  /\ pc[0] = "done"
  /\ iters[0] = 10000
  /\ diags[0] = 2000

(***************************************************************************)
(* C5.  Collective matching.  Ranks that are inside a collective are       *)
(* inside the same call of the same iteration and stage, having entered    *)
(* equally many collectives before; no rank has left the program while     *)
(* another waits in a collective; and while some rank has not finished,    *)
(* some rank can move: nobody waits forever for a call another rank never  *)
(* makes.                                                                  *)
(***************************************************************************)
Waiting(r) == pc[r] \in Collectives

C5_CollectiveMatching ==
  /\ \A r, q \in Ranks :
       /\ (Waiting(r) /\ Waiting(q))
             => (pc[r] = pc[q] /\ tstep[r] = tstep[q] /\ rk[r] = rk[q])
       /\ Waiting(r) => pc[q] # "done"
       /\ ncoll[r] = ncoll[q]
  /\ (\E r \in Ranks : pc[r] # "done") => ENABLED NextKG

\* two ranks wait in the barrier of a diagnostics block, rank 0 having printed
C5_Witness ==
  /\ nranks >= 2
  /\ \A r \in Ranks : pc[r] = "comm.barrier"
  /\ frames = 2

(***************************************************************************)
(* C6.  Backend dispatch of ShenfunFile.  A call that returns has made     *)
(* exactly one handler, an HDF5File or an NCFile: an HDF5File on           *)
(* name + '.h5' when the backend is 'hdf5' in any casing or is not given   *)
(* (and such a call always returns), an NCFile on name + '.nc' when the    *)
(* backend is 'netcdf4'; the handler has the caller's mode ('r' when not   *)
(* given) and as domain, per axis, the points of the requested mesh        *)
(* ('quadrature' when not given) with the axes of length 1 removed.        *)
(***************************************************************************)
AnyCaseHDF5 == {<<x1, x2, x3, "5">> : x1 \in {"h", "H"}, x2 \in {"d", "D"}, x3 \in {"f", "F"}}
CallBackendIsHDF5 ==
  "backend" \in DOMAIN io_call.args => io_call.args["backend"] \in AnyCaseHDF5

C6_BackendDispatch ==
  /\ (io_pc # "idle" /\ CallBackendIsHDF5) => io_pc = "returned"
  /\ io_pc = "returned" =>
       /\ io_result.class \in {"HDF5File", "NCFile"}
       /\ io_constructed = <<io_result.class>>
       /\ CallBackendIsHDF5 =>
            /\ io_result.class = "HDF5File"
            /\ io_result.fname = io_call.name \o <<".", "h", "5">>
       /\ ("backend" \in DOMAIN io_call.args
            /\ io_call.args["backend"] = <<"n", "e", "t", "c", "d", "f", "4">>) =>
            /\ io_result.class = "NCFile"
            /\ io_result.fname = io_call.name \o <<".", "n", "c">>
       /\ io_result.mode = (IF "mode" \in DOMAIN io_call.args THEN io_call.args["mode"] ELSE "r")
       /\ Len(io_result.domain) = Len(io_call.T)
       /\ \A i \in 1 .. Len(io_call.T) :
            /\ io_result.domain[i].shape = (IF io_call.T[i] = 1 THEN <<>> ELSE <<io_call.T[i]>>)
            /\ io_result.domain[i].data =
                 [j \in 1 .. io_call.T[i] |->
                    <<(IF "mesh" \in DOMAIN io_call.args THEN io_call.args["mesh"] ELSE "quadrature"), i, j>>]

\* an upper-case 'HDF5' opened for writing on the uniform mesh of a space with an axis of one point
C6_Witness ==
  /\ io_pc = "returned"
  /\ DOMAIN io_call.args = {"backend", "mode", "mesh"}
  /\ io_call.args["backend"] = <<"H", "D", "F", "5">>
  /\ io_call.args["mode"] = "w"
  /\ io_call.args["mesh"] = "uniform"
  /\ io_call.T = <<1, 2>>
  /\ io_result.class = "HDF5File"

(***************************************************************************)
(* C7.  NetCDF cannot store spectral data.  When the backend is not 'hdf5' *)
(* (in any casing) and forward_output is given as anything but the boolean *)
(* False, the call fails with an AssertionError and no handler has been    *)
(* constructed; when the backend is 'hdf5' a forward_output never makes    *)
(* the call fail and reaches the HDF5File unchanged.                       *)
(***************************************************************************)
C7_NetCDFNoSpectral ==
  io_pc # "idle" =>
    /\ (~CallBackendIsHDF5 /\ "forward_output" \in DOMAIN io_call.kw
           /\ io_call.kw["forward_output"] # PyBool(FALSE))
         => /\ io_pc = "raised"
            /\ io_result.class = "AssertionError"
            /\ io_constructed = <<>>
    /\ (CallBackendIsHDF5 /\ "forward_output" \in DOMAIN io_call.kw)
         => /\ io_pc = "returned"
            /\ io_result.class = "HDF5File"
            /\ io_result.kw = io_call.kw

\* netcdf4 with forward_output=0: falsy, but not False
C7_Witness ==
  /\ io_pc = "raised"
  /\ "backend" \in DOMAIN io_call.args
  /\ io_call.args["backend"] = <<"n", "e", "t", "c", "d", "f", "4">>
  /\ "forward_output" \in DOMAIN io_call.kw
  /\ io_call.kw["forward_output"] = PyInt(0)

(***************************************************************************)
(* C8.  The per-mode solve of the Laguerre-Dirichlet demo.  Every column i *)
(* the loop has passed holds, in all rows but the last, the solution of    *)
(* (matrices[0].mats[0] + scale[i]*matrices[1].mats[0]) x = f_hat[:-1, i], *)
(* written once; the columns not yet passed and the last row are unwritten *)
(* and zero; an iteration writes nothing outside its own column; f_hat and *)
(* the matrices never change.                                              *)
(***************************************************************************)
C8_State ==
  lag_pc # "idle" =>
    \A c \in Cols :
      /\ lag_u_hat[LagRows - 1][c] = 0
      /\ lag_writes[LagRows - 1][c] = 0
      /\ \A r \in Dofs :
           /\ lag_writes[r][c] = (IF c < lag_i THEN 1 ELSE 0)
           /\ c >= lag_i => lag_u_hat[r][c] = 0
           /\ c < lag_i =>
                /\ lag_u_hat[r][c] \in FldVals
                /\ Fld(SumTo([cc \in Dofs |->
                               Fld((lag_matrices[1][r][cc] + lag_scale[c + 1] * lag_matrices[2][r][cc])
                                   * lag_u_hat[cc][c])], LagRows - 1))
                   = lag_f_hat[r][c]
      /\ lag_pc = "done" => lag_i = LagCols

C8_Frame ==
  /\ lag_f_hat' = lag_f_hat
  /\ lag_matrices' = lag_matrices
  /\ lag_scale' = lag_scale
  /\ lag_pc # "idle" =>
       \A r \in Rows : \A c \in Cols : c # lag_i => lag_u_hat'[r][c] = lag_u_hat[r][c]

C8_PerModeSolve == []C8_State /\ [][C8_Frame]_vars

\* the loop has ended on two different operators and a solution that is not zero
C8_Witness ==
  /\ lag_pc = "done"
  /\ lag_scale[1] # lag_scale[2]
  /\ lag_scale[2] # 1
  /\ \E r \in Dofs : lag_u_hat[r][1] # 0
  /\ \E r \in Dofs : lag_u_hat[r][0] # 0

PointsOf(r) == mesh_local[r].x0 \X mesh_local[r].x1
GlobalPoints == (0 .. mesh_shape[1] - 1) \X (0 .. mesh_shape[2] - 1)

C3_MeshPartition ==
  /\ \A r \in DOMAIN mesh_local :
       /\ PointsOf(r) \subseteq GlobalPoints
       /\ Cardinality(mesh_local[r].x0) * mesh_size = mesh_shape[1]
       /\ \A q \in DOMAIN mesh_local : q # r => PointsOf(r) \cap PointsOf(q) = {}
  /\ DOMAIN mesh_local = 0 .. mesh_size - 1 =>
       \A pt \in GlobalPoints : Cardinality({r \in DOMAIN mesh_local : pt \in PointsOf(r)}) = 1

\* two ranks hold their slices of an axis of four points or more
C3_Witness ==
  /\ mesh_size = 2
  /\ mesh_shape[1] >= 4
  /\ DOMAIN mesh_local = {0, 1}
  /\ mesh_local[1].x0 # {}

=============================================================================
